---- MODULE Spec2Model ----
(***************************************************************************)
(* Model of src/muscial_parser.py: MusicalLanguageParser, a facade over an *)
(* NLTK context-free grammar and NLTK's ChartParser.                       *)
(*                                                                         *)
(* A text is a sequence of pieces; the text it stands for is the           *)
(* concatenation of its pieces.  A piece is one whitespace character, one  *)
(* parenthesis, or a word (a string holding neither).  Texts are ASCII.    *)
(* Tokens are strings.                                                     *)
(* Grammar symbols are strings: the grammar's terminal literals and its    *)
(* nonterminal names are disjoint, and check_coverage keeps every token    *)
(* that is not a terminal literal out of the chart.                        *)
(***************************************************************************)
EXTENDS Integers, Sequences, FiniteSets, TLC

VARIABLES
  text,      \* the input text of the calls made so far
  called,    \* the methods that have returned for this input
  raised,    \* the calls an exception left
  tokens,    \* the result of tokenize
  trees,     \* the result of parse
  valid,     \* the result of is_valid
  genArgs,   \* the arguments of generate_examples
  examples,  \* the result of generate_examples
  pc,        \* where the call under way stands
  caller,    \* the method the driver called
  chart,     \* the chart of the parse under way
  agenda     \* the agenda of the parse under way

vars == <<text, called, raised, tokens, trees, valid, genArgs, examples,
          pc, caller, chart, agenda>>

-----------------------------------------------------------------------------
(* Bounds of the model.                                                    *)

MaxPieces == 4

MaxTokens == 4

MaxN == 3

MaxDepth == 8

-----------------------------------------------------------------------------
(* Generic sequence helpers.                                               *)

RECURSIVE SeqsUpTo(_, _)
SeqsUpTo(S, n) ==
  IF n = 0 THEN {<<>>}
  ELSE LET shorter == SeqsUpTo(S, n - 1)
       IN shorter \cup {Append(s, x) : s \in {t \in shorter : Len(t) = n - 1}, x \in S}

RECURSIVE Flatten(_)
Flatten(ss) == IF ss = <<>> THEN <<>> ELSE Head(ss) \o Flatten(Tail(ss))

Range(s) == {s[i] : i \in DOMAIN s}

Take(s, k) == IF Len(s) <= k THEN s ELSE SubSeq(s, 1, k)

Reverse(s) == [i \in 1..Len(s) |-> s[Len(s) + 1 - i]]

(* The indices at which a sequence of booleans is TRUE, ascending.         *)
Keep(flags) ==
  LET on == {i \in 1..Len(flags) : flags[i]}
  IN [k \in 1..Cardinality(on) |->
        CHOOSE i \in on : Cardinality({j \in on : j <= i}) = k]

-----------------------------------------------------------------------------
(* The grammar: __init__, lines 8-30.                                      *)

(* One line of grammar_str: the left-hand side and its |-separated         *)
(* alternatives, each a sequence of symbols; a quoted symbol is written    *)
(* with q = TRUE.                                                          *)
NT(name) == [q |-> FALSE, v |-> name]

T(lit) == [q |-> TRUE, v |-> lit]

Line(lhs, alts) == [lhs |-> lhs, alts |-> alts]

grammar_str ==
  << Line("S", << <<NT("Composition")>> >>),
     Line("Composition", << <<NT("PhraseList")>> >>),
     Line("PhraseList", << <<NT("Phrase"), NT("PhraseList_Prime")>> >>),
     Line("PhraseList_Prime", << <<NT("Phrase"), NT("PhraseList_Prime")>>, <<>> >>),
     Line("Phrase", << <<NT("NoteSequence")>>, <<NT("ChordSequence")>> >>),
     Line("NoteSequence", << <<NT("Note"), NT("NoteSequence_Prime")>> >>),
     Line("NoteSequence_Prime", << <<NT("Note"), NT("NoteSequence_Prime")>>, <<>> >>),
     Line("Note", << <<NT("Pitch"), NT("Duration")>> >>),
     Line("Pitch", << <<T("A")>>, <<T("B")>>, <<T("C")>>, <<T("D")>>,
                      <<T("E")>>, <<T("F")>>, <<T("G")>> >>),
     Line("Duration", << <<T("whole")>>, <<T("half")>>, <<T("quarter")>>,
                         <<T("eighth")>>, <<T("sixteenth")>> >>),
     Line("ChordSequence", << <<NT("Chord"), NT("ChordSequence_Prime")>> >>),
     Line("ChordSequence_Prime", << <<NT("Chord"), NT("ChordSequence_Prime")>>, <<>> >>),
     Line("Chord", << <<T("("), NT("PitchList"), T(")"), NT("Duration")>> >>),
     Line("PitchList", << <<NT("Pitch"), NT("PitchList_Prime")>> >>),
     Line("PitchList_Prime", << <<NT("Pitch"), NT("PitchList_Prime")>>, <<>> >>) >>

(* CFG.fromstring: one production per alternative, in text order; an empty *)
(* alternative is an epsilon production; the first left-hand side is the   *)
(* start symbol.                                                           *)
Prod(lhs, alt) == [lhs |-> lhs, rhs |-> [i \in 1..Len(alt) |-> alt[i].v]]

(* A reading of the grammar text that skips the empty alternatives.        *)
CFG_fromstringNoEmpty(lines) ==
  [start |-> lines[1].lhs,
   productions |->
     Flatten([i \in 1..Len(lines) |->
               LET keep == Keep([j \in 1..Len(lines[i].alts) |-> lines[i].alts[j] # <<>>])
               IN [j \in 1..Len(keep) |-> Prod(lines[i].lhs, lines[i].alts[keep[j]])]]),
   terminals |->
     UNION {UNION {{a[k].v : k \in {m \in 1..Len(a) : a[m].q}} : a \in Range(lines[i].alts)}
            : i \in 1..Len(lines)}]

CFG_fromstring(lines) ==
  [start |-> lines[1].lhs,
   productions |->
     Flatten([i \in 1..Len(lines) |->
               [j \in 1..Len(lines[i].alts) |-> Prod(lines[i].lhs, lines[i].alts[j])]]),
   terminals |->
     UNION {UNION {{a[k].v : k \in {m \in 1..Len(a) : a[m].q}} : a \in Range(lines[i].alts)}
            : i \in 1..Len(lines)}]

grammar == CFG_fromstring(grammar_str)

Productions == grammar.productions

Nonterminals == {Productions[i].lhs : i \in 1..Len(Productions)}

-----------------------------------------------------------------------------
(* tokenize, lines 35-53.                                                  *)

(* The ASCII characters str.split() splits on and str.strip() strips, the  *)
(* characters str.isspace() is true of: space, \t, \n, \r, \f (0x0C), and   *)
(* written as themselves the vertical tab 0x0B and the separators 0x1C,    *)
(* 0x1D, 0x1E and 0x1F.  The whitespace characters outside ASCII (U+0085,  *)
(* U+00A0, U+1680, U+2000 to U+200A, U+2028, U+2029, U+202F, U+205F,       *)
(* U+3000) are not characters of the model's texts.                        *)
Whitespace == {" ", "\t", "\n", "\r", "\f", "", "", "", "", ""}

(* str.replace(old, new) for a one-character old: every occurrence, left   *)
(* to right.                                                               *)
RECURSIVE replace(_, _, _)
replace(txt, old, new) ==
  IF txt = <<>> THEN <<>>
  ELSE (IF Head(txt) = old THEN new ELSE <<Head(txt)>>) \o replace(Tail(txt), old, new)

(* str.split() with no argument: the maximal runs of non-whitespace        *)
(* characters, each run one string.                                        *)
RECURSIVE splitFrom(_, _, _)
splitFrom(txt, cur, out) ==
  IF txt = <<>> THEN (IF cur = "" THEN out ELSE Append(out, cur))
  ELSE IF Head(txt) \in Whitespace
       THEN splitFrom(Tail(txt), "", IF cur = "" THEN out ELSE Append(out, cur))
       ELSE splitFrom(Tail(txt), cur \o Head(txt), out)

split(txt) == splitFrom(txt, "", <<>>)

(* token.strip() is truthy: the token holds a non-whitespace character.    *)
(* A string of split() holds no whitespace, so it is truthy iff non-empty. *)
stripTruthy(tok) == tok # ""

(* A tokenizer that sets only the opening parenthesis apart.               *)
tokenizeNoClose(txt) ==
  LET spaced == replace(txt, "(", <<" ", "(", " ">>)
      parts == split(spaced)
      keep == Keep([i \in 1..Len(parts) |-> stripTruthy(parts[i])])
  IN [i \in 1..Len(keep) |-> parts[keep[i]]]

(* tokenize: both replacements, the split, the filter.                     *)
tokenize(txt) ==
  LET spaced == replace(replace(txt, "(", <<" ", "(", " ">>), ")", <<" ", ")", " ">>)
      parts == split(spaced)
      keep == Keep([i \in 1..Len(parts) |-> stripTruthy(parts[i])])
  IN [i \in 1..Len(keep) |-> parts[keep[i]]]

-----------------------------------------------------------------------------
(* The chart parser built at line 30, ChartParser(self.grammar), and run   *)
(* at line 68, self.parser.parse(tokens): NLTK's agenda-driven chart       *)
(* parser under its default bottom-up left-corner strategy (LeafInitRule,  *)
(* EmptyPredictRule, BottomUpPredictCombineRule,                           *)
(* SingleEdgeFundamentalRule).  Positions are 0-based, spans half-open.    *)
(*                                                                         *)
(* A chart is [edges, cpls]: the edges in insertion order and, for the     *)
(* i-th edge, its child pointer lists in insertion order, each a sequence  *)
(* of edge indices.                                                        *)

LeafEdge(leaf, index) ==
  [kind |-> "leaf", s |-> index, e |-> index + 1, lhs |-> leaf, rhs |-> <<>>, dot |-> 0]

TreeEdge(s, e, lhs, rhs, dot) ==
  [kind |-> "tree", s |-> s, e |-> e, lhs |-> lhs, rhs |-> rhs, dot |-> dot]

is_complete(edge) == edge.kind = "leaf" \/ edge.dot = Len(edge.rhs)

is_incomplete(edge) == ~is_complete(edge)

(* nextsym: the symbol after the dot; "" stands for None.                  *)
nextsym(edge) == IF is_complete(edge) THEN "" ELSE edge.rhs[edge.dot + 1]

move_dot_forward(edge, new_end) ==
  TreeEdge(edge.s, new_end, edge.lhs, edge.rhs, edge.dot + 1)

EmptyChart == [edges |-> <<>>, cpls |-> <<>>]

EdgeIndex(ch, edge) ==
  IF \E i \in 1..Len(ch.edges) : ch.edges[i] = edge
  THEN CHOOSE i \in 1..Len(ch.edges) : ch.edges[i] = edge
  ELSE 0

RECURSIVE AddCpls(_, _)
AddCpls(have, new) ==
  IF new = <<>> THEN have
  ELSE AddCpls(IF Head(new) \in Range(have) THEN have ELSE Append(have, Head(new)),
               Tail(new))

(* An insert that appends the edge whether or not the chart holds it.      *)
insertAlwaysAppend(ch, edge, new) ==
  LET with == [edges |-> Append(ch.edges, edge), cpls |-> Append(ch.cpls, <<>>)]
      idx == Len(with.edges)
      old == IF EdgeIndex(ch, edge) = 0 THEN <<>> ELSE ch.cpls[EdgeIndex(ch, edge)]
      now == AddCpls(old, new)
  IN [chart |-> [with EXCEPT !.cpls[idx] = now], idx |-> idx, modified |-> now # old]

(* Chart.insert(edge, *child_pointer_lists): a new edge is appended once;  *)
(* every child pointer list the edge does not have yet is recorded; the    *)
(* result says whether one was.                                            *)
insert(ch, edge, new) ==
  LET at == EdgeIndex(ch, edge)
      with == IF at = 0
              THEN [edges |-> Append(ch.edges, edge), cpls |-> Append(ch.cpls, <<>>)]
              ELSE ch
      idx == IF at = 0 THEN Len(with.edges) ELSE at
      now == AddCpls(with.cpls[idx], new)
  IN [chart |-> [with EXCEPT !.cpls[idx] = now],
      idx |-> idx,
      modified |-> now # with.cpls[idx]]

(* Chart.insert_with_backpointer(new_edge, previous_edge, child_edge).     *)
insert_with_backpointer(ch, new_edge, previous, child) ==
  insert(ch, new_edge,
         [k \in 1..Len(ch.cpls[previous]) |-> Append(ch.cpls[previous][k], child)])

(* A rule application under way: the chart so far, the edges yielded so   *)
(* far, and what is left to iterate over.                                  *)
Applying(ch, todo) == [chart |-> ch, new |-> <<>>, todo |-> todo]

Yielded(st, r) ==
  [chart |-> r.chart,
   new |-> IF r.modified THEN Append(st.new, r.idx) ELSE st.new,
   todo |-> Tail(st.todo)]

Applied(st) == [chart |-> st.chart, new |-> st.new]

(* LeafInitRule.apply: one leaf edge per token; todo holds the indices.    *)
RECURSIVE LeafInitLoop(_, _)
LeafInitLoop(st, toks) ==
  IF st.todo = <<>> THEN Applied(st)
  ELSE LeafInitLoop(
         Yielded(st, insert(st.chart, LeafEdge(toks[Head(st.todo) + 1], Head(st.todo)),
                            << <<>> >>)),
         toks)

LeafInitRule(ch, toks) ==
  LeafInitLoop(Applying(ch, [i \in 1..Len(toks) |-> i - 1]), toks)

(* grammar.productions(empty=True), in grammar order.                      *)
EmptyProductions ==
  LET P == Productions
      keep == Keep([i \in 1..Len(P) |-> P[i].rhs = <<>>])
  IN [i \in 1..Len(keep) |-> P[keep[i]]]

(* grammar.productions(rhs=sym): the productions whose right-hand side     *)
(* starts with sym, in grammar order.                                      *)
ProductionsWithFirst(sym) ==
  LET P == Productions
      keep == Keep([i \in 1..Len(P) |-> P[i].rhs # <<>> /\ P[i].rhs[1] = sym])
  IN [i \in 1..Len(keep) |-> P[keep[i]]]

(* EmptyPredictRule.apply: for every epsilon production, a zero-width      *)
(* complete edge at every position 0..n; todo holds the positions left for *)
(* the production at hand.                                                 *)
RECURSIVE EmptyPredictAt(_, _)
EmptyPredictAt(st, prod) ==
  IF st.todo = <<>> THEN Applied(st)
  ELSE EmptyPredictAt(
         Yielded(st, insert(st.chart,
                            TreeEdge(Head(st.todo), Head(st.todo), prod.lhs, <<>>, 0),
                            << <<>> >>)),
         prod)

RECURSIVE EmptyPredictLoop(_, _)
EmptyPredictLoop(st, n) ==
  IF st.todo = <<>> THEN Applied(st)
  ELSE LET r == EmptyPredictAt(Applying(st.chart, [i \in 1..(n + 1) |-> i - 1]),
                               Head(st.todo))
       IN EmptyPredictLoop([chart |-> r.chart, new |-> st.new \o r.new,
                            todo |-> Tail(st.todo)], n)

EmptyPredictRule(ch, n) == EmptyPredictLoop(Applying(ch, EmptyProductions), n)

(* BottomUpPredictCombineRule.apply(chart, grammar, edge): for a complete  *)
(* edge, every production whose right-hand side starts with the edge's     *)
(* left-hand side gets an edge over the same span with the dot after it.   *)
RECURSIVE PredictCombineLoop(_, _)
PredictCombineLoop(st, ei) ==
  IF st.todo = <<>> THEN Applied(st)
  ELSE PredictCombineLoop(
         Yielded(st, insert(st.chart,
                            TreeEdge(st.chart.edges[ei].s, st.chart.edges[ei].e,
                                     Head(st.todo).lhs, Head(st.todo).rhs, 1),
                            << <<ei>> >>)),
         ei)

BottomUpPredictCombineRule(ch, ei) ==
  IF is_incomplete(ch.edges[ei]) THEN Applied(Applying(ch, <<>>))
  ELSE PredictCombineLoop(Applying(ch, ProductionsWithFirst(ch.edges[ei].lhs)), ei)

(* Chart.select under the two restrictions the fundamental rule uses, as   *)
(* edge indices in insertion order.                                        *)
SelectLeft(ch, end, sym) ==
  Keep([i \in 1..Len(ch.edges) |->
          ch.edges[i].e = end /\ is_incomplete(ch.edges[i]) /\ nextsym(ch.edges[i]) = sym])

SelectRight(ch, start, sym) ==
  Keep([i \in 1..Len(ch.edges) |->
          ch.edges[i].s = start /\ is_complete(ch.edges[i]) /\ ch.edges[i].lhs = sym])

(* SingleEdgeFundamentalRule._apply_complete: the complete edge extends    *)
(* every incomplete edge that ends where it starts and expects its         *)
(* left-hand side.                                                         *)
RECURSIVE ApplyCompleteLoop(_, _)
ApplyCompleteLoop(st, right) ==
  IF st.todo = <<>> THEN Applied(st)
  ELSE ApplyCompleteLoop(
         Yielded(st, insert_with_backpointer(
                       st.chart,
                       move_dot_forward(st.chart.edges[Head(st.todo)], st.chart.edges[right].e),
                       Head(st.todo), right)),
         right)

(* SingleEdgeFundamentalRule._apply_incomplete: the incomplete edge is     *)
(* extended by every complete edge that starts where it ends and has the   *)
(* left-hand side it expects.                                              *)
RECURSIVE ApplyIncompleteLoop(_, _)
ApplyIncompleteLoop(st, left) ==
  IF st.todo = <<>> THEN Applied(st)
  ELSE ApplyIncompleteLoop(
         Yielded(st, insert_with_backpointer(
                       st.chart,
                       move_dot_forward(st.chart.edges[left], st.chart.edges[Head(st.todo)].e),
                       left, Head(st.todo))),
         left)

(* A fundamental rule that extends nothing from an incomplete edge.        *)
FundamentalCompleteOnly(ch, ei) ==
  IF is_incomplete(ch.edges[ei])
  THEN Applied(Applying(ch, <<>>))
  ELSE ApplyCompleteLoop(
         Applying(ch, SelectLeft(ch, ch.edges[ei].s, ch.edges[ei].lhs)), ei)

SingleEdgeFundamentalRule(ch, ei) ==
  IF is_incomplete(ch.edges[ei])
  THEN ApplyIncompleteLoop(
         Applying(ch, SelectRight(ch, ch.edges[ei].e, nextsym(ch.edges[ei]))), ei)
  ELSE ApplyCompleteLoop(
         Applying(ch, SelectLeft(ch, ch.edges[ei].s, ch.edges[ei].lhs)), ei)

(* chart_parse, before its loop: the axioms (the rules that take no edge)  *)
(* fill the chart, and the agenda is the chart's edges with the first edge *)
(* on top.                                                                 *)
ApplyAxioms(toks) ==
  LET leaves == LeafInitRule(EmptyChart, toks)
      empties == EmptyPredictRule(leaves.chart, Len(toks))
  IN [chart |-> empties.chart,
      agenda |-> Reverse([i \in 1..Len(empties.chart.edges) |-> i])]

(* One turn of chart_parse's loop: pop the agenda's last edge, apply the   *)
(* two inference rules to it in order, push the edges each yields.         *)
AgendaStep(st) ==
  LET edge == st.agenda[Len(st.agenda)]
      rest == SubSeq(st.agenda, 1, Len(st.agenda) - 1)
      predicted == BottomUpPredictCombineRule(st.chart, edge)
      combined == SingleEdgeFundamentalRule(predicted.chart, edge)
  IN [chart |-> combined.chart, agenda |-> rest \o predicted.new \o combined.new]

(* grammar.check_coverage(tokens): every token is a terminal of the        *)
(* grammar; otherwise chart_parse raises ValueError.                       *)
check_coverage(toks) == \A i \in 1..Len(toks) : toks[i] \in grammar.terminals

-----------------------------------------------------------------------------
(* Reading the trees off the chart: Chart.parses, Chart._trees.            *)

Leaf(tok) == [label |-> tok, leaf |-> TRUE, children |-> <<>>]

Tree(label, children) == [label |-> label, leaf |-> FALSE, children |-> children]

(* itertools.product: the last position varies fastest.                    *)
RECURSIVE Product(_)
Product(choices) ==
  IF choices = <<>> THEN << <<>> >>
  ELSE LET rest == Product(Tail(choices))
           first == Head(choices)
       IN Flatten([i \in 1..Len(first) |->
                    [j \in 1..Len(rest) |-> <<first[i]>> \o rest[j]]])

(* Chart._trees(edge, complete=True, memo): an edge being expanded counts  *)
(* as having no tree (memo[edge] = []), which filters cyclic trees; an     *)
(* incomplete edge has none.                                               *)
RECURSIVE TreesOf(_, _, _)
ChildChoices(ch, cpl, expanding) ==
  [k \in 1..Len(cpl) |-> TreesOf(ch, cpl[k], expanding)]

TreesOfCpl(ch, label, cpl, expanding) ==
  LET combos == Product(ChildChoices(ch, cpl, expanding))
  IN [m \in 1..Len(combos) |-> Tree(label, combos[m])]

TreesOf(ch, ei, expanding) ==
  IF ei \in expanding \/ is_incomplete(ch.edges[ei]) THEN <<>>
  ELSE IF ch.edges[ei].kind = "leaf" THEN <<Leaf(ch.edges[ei].lhs)>>
  ELSE Flatten([c \in 1..Len(ch.cpls[ei]) |->
                 TreesOfCpl(ch, ch.edges[ei].lhs, ch.cpls[ei][c], expanding \cup {ei})])

(* A reading of the chart that takes every edge over the whole input.      *)
parsesAnyRoot(ch, n, root) ==
  LET roots == Keep([i \in 1..Len(ch.edges) |-> ch.edges[i].s = 0 /\ ch.edges[i].e = n])
  IN Flatten([r \in 1..Len(roots) |-> TreesOf(ch, roots[r], {})])

(* Chart.parses(root): the trees of every edge over the whole input whose  *)
(* left-hand side is the start symbol.                                     *)
parses(ch, n, root) ==
  LET roots == Keep([i \in 1..Len(ch.edges) |->
                      ch.edges[i].s = 0 /\ ch.edges[i].e = n /\ ch.edges[i].lhs = root])
  IN Flatten([r \in 1..Len(roots) |-> TreesOf(ch, roots[r], {})])

-----------------------------------------------------------------------------
(* The facade: parse (lines 55-75) and is_valid (lines 77-88).  A call's   *)
(* outcome is [raised, value]: raised says an exception left the call.     *)
(* The outcome of ChartParser.parse is [raised, trees].                    *)

Returned(v) == [raised |-> FALSE, value |-> v]

(* A parse that stops at the first tree.                                   *)
parseFirstOnly(r) == IF r.raised THEN Returned(<<>>) ELSE Returned(Take(r.trees, 1))

(* A parse without the try block: the exception leaves the call.           *)
parseNoTry(r) == [raised |-> r.raised, value |-> r.trees]

(* parse, lines 66-75: the trees are listed; an exception of the chart     *)
(* parser is caught and turned into the empty list.                        *)
parse(r) == IF r.raised THEN Returned(<<>>) ELSE Returned(r.trees)

(* An is_valid that compares with 1 instead of 0.                          *)
is_validMoreThanOne(p) ==
  IF p.raised THEN [raised |-> TRUE, value |-> FALSE] ELSE Returned(Len(p.value) > 1)

(* is_valid, lines 87-88: len(trees) > 0 of what parse returned.           *)
is_valid(p) ==
  IF p.raised THEN [raised |-> TRUE, value |-> FALSE] ELSE Returned(Len(p.value) > 0)

-----------------------------------------------------------------------------
(* generate_examples, lines 105-133, over nltk.parse.generate.generate.    *)

(* grammar.productions(lhs=sym), in grammar order.                         *)
ProductionsOf(sym) ==
  LET P == Productions
      keep == Keep([i \in 1..Len(P) |-> P[i].lhs = sym])
  IN [i \in 1..Len(keep) |-> P[keep[i]]]

(* The first k fragments _generate_all(grammar, items, depth) and          *)
(* _generate_one(grammar, item, depth) yield: an item is expanded only     *)
(* while depth > 0, a nonterminal by each of its productions in turn at    *)
(* depth - 1, and the fragments of the items are combined first item       *)
(* slowest.                                                                *)
RECURSIVE generate_all(_, _, _)
RECURSIVE generate_one(_, _, _)
generate_all(items, depth, k) ==
  IF items = <<>> THEN << <<>> >>
  ELSE LET frag2 == generate_all(Tail(items), depth, k)
       IN IF frag2 = <<>> THEN <<>>
          ELSE LET frag1 == generate_one(Head(items), depth, k)
               IN Take(Flatten([i \in 1..Len(frag1) |->
                                 [j \in 1..Len(frag2) |-> frag1[i] \o frag2[j]]]), k)

generate_one(item, depth, k) ==
  IF depth <= 0 THEN <<>>
  ELSE IF item \in Nonterminals
       THEN LET prods == ProductionsOf(item)
            IN Take(Flatten([i \in 1..Len(prods) |->
                              generate_all(prods[i].rhs, depth - 1, k)]), k)
       ELSE << <<item>> >>

(* The manual examples of lines 126-132.                                   *)
manual_examples ==
  << <<"C", " ", "quarter">>,
     <<"A", " ", "whole", " ", "B", " ", "half">>,
     <<"C", " ", "quarter", " ", "D", " ", "half", " ", "E", " ", "whole">>,
     <<"(", " ", "C", " ", "E", " ", "G", " ", ")", " ", "whole">>,
     <<"C", " ", "quarter", " ", "(", " ", "D", " ", "F", " ", "A", " ", ")", " ", "half">> >>

(* ' '.join(sentence).                                                     *)
RECURSIVE join(_)
join(sentence) ==
  IF Len(sentence) <= 1 THEN sentence
  ELSE <<Head(sentence), " ">> \o join(Tail(sentence))

(* generate_examples(n, depth): generate(grammar, depth=depth, n=n) slices *)
(* its iterator to n items when n is not 0, and islice raises ValueError   *)
(* for a negative n, which the except branch turns into the manual         *)
(* examples; the loop stops once len(examples) >= n, so after the first    *)
(* sentence when n is 0.  A generation that yields nothing raises nothing: *)
(* the result is the empty list.                                           *)
generate_examples(n, depth) ==
  IF n < 0 THEN manual_examples
  ELSE LET sentences == generate_all(<<grammar.start>>, depth, IF n = 0 THEN 1 ELSE n)
       IN [i \in 1..Len(sentences) |-> join(sentences[i])]

-----------------------------------------------------------------------------
(* The inputs of the model.                                                *)

(* The tokens of a sequence written one space apart.                       *)
RECURSIVE Spaced(_)
Spaced(toks) ==
  IF Len(toks) <= 1 THEN toks ELSE <<Head(toks), " ">> \o Spaced(Tail(toks))

(* test_parser's examples, lines 172-193, and demo's, lines 245-251.       *)
valid_examples ==
  << Spaced(<<"C", "quarter">>),
     Spaced(<<"C", "quarter", "D", "half">>),
     Spaced(<<"(", "C", "E", "G", ")", "whole">>),
     Spaced(<<"C", "quarter", "(", "E", "G", "B", ")", "whole", "D", "half">>),
     Spaced(<<"(", "C", "E", "G", ")", "whole", "(", "D", "F", "A", ")", "half">>),
     Spaced(<<"C", "quarter", "D", "half", "(", "E", "G", "B", ")", "whole", "F", "sixteenth">>) >>

invalid_examples ==
  << Spaced(<<"quarter", "C">>),
     Spaced(<<"C", "D", "quarter">>),
     Spaced(<<"(", "C", "E", "G">>),
     Spaced(<<"H", "quarter">>),
     Spaced(<<"C", "long">>) >>

demo_examples ==
  << Spaced(<<"C", "quarter">>),
     Spaced(<<"A", "whole", "B", "half", "C", "quarter">>),
     Spaced(<<"(", "C", "E", "G", ")", "whole">>),
     Spaced(<<"D", "half", "(", "F", "A", "C", ")", "quarter", "E", "eighth">>),
     Spaced(<<"C", "quarter", "D", "half", "(", "E", "G", "B", ")", "whole", "F", "sixteenth">>) >>

(* A chord written with no space around its parentheses.                   *)
TightChord == <<"(", "C", " ", "E", " ", "G", ")", "whole">>

(* Notes and chords mixed, with other pitches and durations than the       *)
(* exhaustive sequences have.                                              *)
mixed_examples ==
  << Spaced(<<"G", "half", "(", "A", ")", "eighth">>),
     Spaced(<<"(", "B", "D", ")", "sixteenth", "F", "whole">>),
     Spaced(<<"(", ")", "whole">>),
     Spaced(<<"(", "C", "E", ")">>),
     Spaced(<<"C", "quarter", "D">>) >>

PitchNames == {"A", "B", "C", "D", "E", "F", "G"}

DurationNames == {"whole", "half", "quarter", "eighth", "sixteenth"}

PitchDurationTexts == {Spaced(<<p, d>>) : p \in PitchNames, d \in DurationNames}

(* The tokens the exhaustive token sequences are made of: a pitch, a       *)
(* duration, the parentheses and a word outside the grammar.               *)
InputTokens == {"C", "quarter", "(", ")", "H"}

(* The pieces the exhaustive texts are made of.                            *)
InputPieces == {" ", "\t", "(", ")", "C", "c", "whole"}

ExampleInputs ==
  Range(valid_examples) \cup Range(invalid_examples) \cup Range(demo_examples)
    \cup Range(mixed_examples) \cup PitchDurationTexts \cup {TightChord}

ParseInputs == {Spaced(t) : t \in SeqsUpTo(InputTokens, MaxTokens)} \cup ExampleInputs

(* Two words with one whitespace character between them, for each one.    *)
WhitespaceTexts == {<<"C", w, "quarter">> : w \in Whitespace}

(* Words on three lines, the line ends written two ways.                   *)
LinesText == <<"C", "\n", "quarter", "\r", "\n", "D">>

TokenizeInputs ==
  SeqsUpTo(InputPieces, MaxPieces) \cup {TightChord, LinesText} \cup WhitespaceTexts

-----------------------------------------------------------------------------
(* The state machine: a driver (test_parser, demo, the interactive loop)   *)
(* takes an input and calls the parser's methods on it.  A call of parse   *)
(* or is_valid runs the chart parser, one turn of its agenda loop a step.  *)

Init ==
  /\ text = <<>>
  /\ called = {}
  /\ raised = {}
  /\ tokens = <<>>
  /\ trees = <<>>
  /\ valid = FALSE
  /\ genArgs = [n |-> 0, depth |-> 0]
  /\ examples = <<>>
  /\ pc = "idle"
  /\ caller = "none"
  /\ chart = EmptyChart
  /\ agenda = <<>>

(* parser.tokenize(text).                                                  *)
Tokenize ==
  /\ pc = "idle"
  /\ called = {}
  /\ \E t \in TokenizeInputs :
       /\ text' = t
       /\ tokens' = tokenize(t)
  /\ called' = {"tokenize"}
  /\ UNCHANGED <<raised, trees, valid, genArgs, examples, pc, caller, chart, agenda>>

(* Line 65: a call of parse tokenizes its text and enters the try block.   *)
Enter(t, method) ==
  /\ text' = t
  /\ tokens' = tokenize(t)
  /\ caller' = method
  /\ pc' = "chart_parse"
  /\ UNCHANGED <<called, raised, trees, valid, genArgs, examples, chart, agenda>>

(* parser.is_valid(text) on a new input.                                   *)
CallIsValid ==
  /\ pc = "idle"
  /\ called = {}
  /\ \E t \in ParseInputs : Enter(t, "is_valid")

(* parser.parse(text) on a new input.                                      *)
CallParse ==
  /\ pc = "idle"
  /\ called = {}
  /\ \E t \in ParseInputs : Enter(t, "parse")

(* parser.parse(text) on the input is_valid was just asked about, as demo  *)
(* (lines 218-222) and the interactive loop (lines 155-161) do.            *)
CallParseAgain ==
  /\ pc = "idle"
  /\ called = {"is_valid"}
  /\ Enter(text, "parse")

(* The chart parser is left with outcome r: parse returns, and is_valid    *)
(* returns when it was the method called.                                  *)
Return(r) ==
  LET p == parse(r)
      v == is_valid(p)
  IN /\ pc' = "idle"
     /\ chart' = EmptyChart
     /\ agenda' = <<>>
     /\ called' = called \cup {caller}
     /\ IF caller = "parse"
        THEN /\ trees' = p.value
             /\ raised' = IF p.raised THEN raised \cup {"parse"} ELSE raised
             /\ UNCHANGED valid
        ELSE /\ valid' = v.value
             /\ raised' = IF v.raised THEN raised \cup {"is_valid"} ELSE raised
             /\ UNCHANGED trees
     /\ UNCHANGED <<text, tokens, caller, genArgs, examples>>

(* chart_parse: check_coverage raises ValueError.                          *)
CoverageError ==
  /\ pc = "chart_parse"
  /\ ~check_coverage(tokens)
  /\ Return([raised |-> TRUE, trees |-> <<>>])

(* chart_parse: the axioms are applied and the agenda is filled.           *)
Axioms ==
  /\ pc = "chart_parse"
  /\ check_coverage(tokens)
  /\ LET st == ApplyAxioms(tokens)
     IN chart' = st.chart /\ agenda' = st.agenda
  /\ pc' = "agenda"
  /\ UNCHANGED <<text, called, raised, tokens, trees, valid, genArgs, examples, caller>>

(* chart_parse: one turn of the loop "while agenda".                       *)
AgendaPop ==
  /\ pc = "agenda"
  /\ agenda # <<>>
  /\ LET st == AgendaStep([chart |-> chart, agenda |-> agenda])
     IN chart' = st.chart /\ agenda' = st.agenda
  /\ UNCHANGED <<text, called, raised, tokens, trees, valid, genArgs, examples, pc, caller>>

(* The agenda is empty: the trees are read off the chart (line 68).        *)
ReadParses ==
  /\ pc = "agenda"
  /\ agenda = <<>>
  /\ Return([raised |-> FALSE, trees |-> parses(chart, Len(tokens), grammar.start)])

(* parser.generate_examples(n, depth).                                     *)
GenerateExamples ==
  /\ pc = "idle"
  /\ called = {}
  /\ \E n \in -1..MaxN, depth \in 0..MaxDepth :
       /\ genArgs' = [n |-> n, depth |-> depth]
       /\ examples' = generate_examples(n, depth)
  /\ called' = {"generate_examples"}
  /\ UNCHANGED <<text, raised, tokens, trees, valid, pc, caller, chart, agenda>>

Next ==
  \/ Tokenize
  \/ CallIsValid
  \/ CallParse
  \/ CallParseAgain
  \/ CoverageError
  \/ Axioms
  \/ AgendaPop
  \/ ReadParses
  \/ GenerateExamples

Spec == Init /\ [][Next]_vars

(* A call under way runs on: the interpreter executes the next statement   *)
(* of chart_parse while there is one.  Nothing is assumed of the driver.   *)
(* This is weak fairness of Running, WF_vars(Running), written out as      *)
(* []<>~ENABLED <<Running>>_vars \/ []<><<Running>>_vars with the state     *)
(* predicate pc = "idle" for ~ENABLED <<Running>>_vars: for pc =            *)
(* "chart_parse" one of CoverageError and Axioms is enabled, for pc =      *)
(* "agenda" one of AgendaPop and ReadParses, and each changes pc, the      *)
(* chart or the agenda.                                                    *)
Running == CoverageError \/ Axioms \/ AgendaPop \/ ReadParses

RunningFair == []<>(pc = "idle") \/ []<><<Running>>_vars

FairSpec == Spec /\ RunningFair

-----------------------------------------------------------------------------
(* Reference definitions the properties are stated with.                   *)

(* A left-to-right scan of the text: a whitespace character ends the word  *)
(* under way, a parenthesis ends it and is a token, any other piece        *)
(* extends it.                                                             *)
RECURSIVE ScanFrom(_, _, _)
ScanFrom(txt, word, out) ==
  LET flushed == IF word = "" THEN out ELSE Append(out, word)
  IN IF txt = <<>> THEN flushed
     ELSE IF Head(txt) \in Whitespace THEN ScanFrom(Tail(txt), "", flushed)
     ELSE IF Head(txt) \in {"(", ")"} THEN ScanFrom(Tail(txt), "", Append(flushed, Head(txt)))
     ELSE ScanFrom(Tail(txt), word \o Head(txt), out)

ScanTokens(txt) == ScanFrom(txt, "", <<>>)

RECURSIVE Concat(_)
Concat(strs) == IF strs = <<>> THEN "" ELSE Head(strs) \o Concat(Tail(strs))

Count(s, x) == Cardinality({i \in 1..Len(s) : s[i] = x})

NonWhitespace(txt) ==
  LET keep == Keep([i \in 1..Len(txt) |-> txt[i] \notin Whitespace])
  IN [i \in 1..Len(keep) |-> txt[keep[i]]]

(* The derivations of a token sequence from a symbol, as trees, read off   *)
(* the productions top-down: every production of the symbol, every way of  *)
(* splitting the tokens among the symbols of its right-hand side (the rest *)
(* of a right-hand side is looked at only once its first symbol derives    *)
(* its share of the tokens, and a last symbol takes all that is left).     *)
RECURSIVE Derive(_, _)
RECURSIVE DeriveSeq(_, _)
Derive(sym, toks) ==
  IF sym \in Nonterminals
  THEN UNION {{Tree(sym, kids) : kids \in DeriveSeq(Productions[i].rhs, toks)}
              : i \in {j \in 1..Len(Productions) : Productions[j].lhs = sym}}
  ELSE IF toks = <<sym>> THEN {Leaf(sym)} ELSE {}

DeriveSeq(rhs, toks) ==
  IF rhs = <<>> THEN (IF toks = <<>> THEN {<<>>} ELSE {})
  ELSE UNION {LET first == Derive(Head(rhs), SubSeq(toks, 1, k))
              IN IF first = {} THEN {}
                 ELSE {<<h>> \o r : h \in first,
                                    r \in DeriveSeq(Tail(rhs), SubSeq(toks, k + 1, Len(toks)))}
              : k \in IF Len(rhs) = 1 THEN {Len(toks)} ELSE 0..Len(toks)}

(* The language of the claim: one or more units, a unit being a note (a    *)
(* pitch and a duration) or a chord ('(', one or more pitches, ')' and a   *)
(* duration).                                                              *)
IsNoteAt(toks, i) ==
  /\ i + 1 <= Len(toks)
  /\ toks[i] \in PitchNames
  /\ toks[i + 1] \in DurationNames

(* A chord of k pitches starts at i.                                       *)
IsChordAt(toks, i, k) ==
  /\ k >= 1
  /\ i + k + 2 <= Len(toks)
  /\ toks[i] = "("
  /\ \A j \in (i + 1)..(i + k) : toks[j] \in PitchNames
  /\ toks[i + k + 1] = ")"
  /\ toks[i + k + 2] \in DurationNames

RECURSIVE UnitsFrom(_, _)
UnitsFrom(toks, i) ==
  \/ i = Len(toks) + 1
  \/ IsNoteAt(toks, i) /\ UnitsFrom(toks, i + 2)
  \/ \E k \in 1..Len(toks) : IsChordAt(toks, i, k) /\ UnitsFrom(toks, i + k + 3)

InLanguage(toks) == toks # <<>> /\ UnitsFrom(toks, 1)

(* The nodes of a tree: the tree and the nodes of its children.            *)
RECURSIVE Nodes(_)
Nodes(tree) == {tree} \cup UNION {Nodes(tree.children[i]) : i \in 1..Len(tree.children)}

ChildLabels(node) == [i \in 1..Len(node.children) |-> node.children[i].label]

LabelledNodes(tree, label) == {n \in Nodes(tree) : ~n.leaf /\ n.label = label}

Both == {"parse", "is_valid"}

(* The method has returned for the input at hand and no call is under way. *)
Done(method) == pc = "idle" /\ method \in called

BothDone == pc = "idle" /\ Both \subseteq called

(* The tokens have just been made: by a call of tokenize, or by parse on   *)
(* its first line.                                                         *)
JustTokenized == called = {"tokenize"} \/ pc = "chart_parse"

-----------------------------------------------------------------------------
(* The properties.                                                         *)

(* C1: once parse and is_valid have both returned for an input, is_valid's *)
(* answer is true exactly when parse's list of trees is non-empty, and no  *)
(* exception has left either call; so also on the input whose tokens the   *)
(* grammar does not cover, where the chart parser raises.                  *)
C1_ValidIffTrees ==
  BothDone => (valid <=> trees # <<>>) /\ raised = {}

C1_Witness_FailSoft ==
  /\ BothDone
  /\ ~check_coverage(tokens)
  /\ ~valid
  /\ trees = <<>>

(* C2 as claimed: parse("C quarter D half") returns exactly one tree.      *)
C2_TwoNotesOneTree ==
  (Done("parse") /\ text = valid_examples[2]) => Len(trees) = 1

(* C3: for a text of one pitch and one duration, parse returns exactly one *)
(* tree and is_valid returns true.                                         *)
C3_NoteOneTree ==
  text \in PitchDurationTexts =>
    /\ Done("parse") => Len(trees) = 1
    /\ Done("is_valid") => valid

C3_Witness_Note ==
  /\ BothDone
  /\ text = Spaced(<<"C", "quarter">>)
  /\ valid
  /\ Len(trees) = 1

(* C4 as claimed: parse("( C E G ) whole") returns one tree, which has a   *)
(* Chord node with three children labelled Pitch.                          *)
C4_ChordThreePitchChildren ==
  (Done("parse") /\ text = valid_examples[3]) =>
    /\ Len(trees) = 1
    /\ \E n \in LabelledNodes(trees[1], "Chord") : Count(ChildLabels(n), "Pitch") = 3

(* C4 amended: parse("( C E G ) whole") returns one tree; it has one Chord *)
(* node, whose children are '(', a PitchList, ')' and a Duration, and the  *)
(* three Pitch nodes lie below the PitchList, none a child of the Chord.   *)
C4_ChordThreePitchesBelow ==
  (Done("parse") /\ text = valid_examples[3]) =>
    /\ Len(trees) = 1
    /\ \E n \in LabelledNodes(trees[1], "Chord") :
         /\ LabelledNodes(trees[1], "Chord") = {n}
         /\ ChildLabels(n) = <<"(", "PitchList", ")", "Duration">>
         /\ Cardinality(LabelledNodes(n.children[2], "Pitch")) = 3
         /\ Cardinality(LabelledNodes(n, "Pitch")) = 3
    /\ valid_examples[3] = Spaced(<<"(", "C", "E", "G", ")", "whole">>)

C4_Witness_Chord ==
  /\ Done("parse")
  /\ text = valid_examples[3]
  /\ Len(trees) = 1

(* C5: on each of test_parser's invalid examples parse returns the empty   *)
(* list, is_valid returns false and no exception leaves the call.          *)
C5_InvalidExamplesEmpty ==
  text \in Range(invalid_examples) =>
    /\ Done("parse") => trees = <<>>
    /\ Done("is_valid") => ~valid
    /\ raised = {}

C5_Witness_UnknownToken ==
  /\ BothDone
  /\ text = Spaced(<<"H", "quarter">>)
  /\ trees = <<>>
  /\ ~valid

(* C6: the tokens are those of a left-to-right scan that makes every       *)
(* parenthesis a token and splits on whitespace: no token is empty or      *)
(* whitespace, every parenthesis of the text is a token, the tokens put    *)
(* together are the text without its whitespace, and the chord written     *)
(* with no spaces gives "(", "C", "E", "G", ")", "whole"; two words with   *)
(* any one whitespace character between them, a newline or a carriage      *)
(* return as well as a space, are two tokens.                              *)
C6_TokenizeScan ==
  JustTokenized =>
    /\ tokens = ScanTokens(text)
    /\ \A i \in 1..Len(tokens) : tokens[i] # "" /\ tokens[i] \notin Whitespace
    /\ Count(tokens, "(") = Count(text, "(")
    /\ Count(tokens, ")") = Count(text, ")")
    /\ Concat(tokens) = Concat(NonWhitespace(text))
    /\ text = TightChord => tokens = <<"(", "C", "E", "G", ")", "whole">>
    /\ text \in WhitespaceTexts => tokens = <<"C", "quarter">>
    /\ text = LinesText => tokens = <<"C", "quarter", "D">>

C6_Witness_TightChord ==
  /\ called = {"tokenize"}
  /\ text = TightChord
  /\ tokens = <<"(", "C", "E", "G", ")", "whole">>

(* C7: the trees parse returns are the derivations of the tokens from the  *)
(* start symbol, each once.                                                *)
C7_OneTreePerDerivation ==
  Done("parse") =>
    /\ Range(trees) = Derive(grammar.start, tokens)
    /\ Cardinality(Range(trees)) = Len(trees)

C7_Witness_TwoDerivations ==
  /\ Done("parse")
  /\ Len(trees) = 2
  /\ Cardinality(Derive(grammar.start, tokens)) = 2

(* C8: no edge is in the chart twice, and every call of parse or is_valid  *)
(* returns.                                                                *)
NoDuplicateEdge ==
  \A i, j \in 1..Len(chart.edges) : chart.edges[i] = chart.edges[j] => i = j

C8_EpsilonSafety == [](NoDuplicateEdge) /\ ((pc # "idle") ~> (pc = "idle"))

(* The nonterminals with an epsilon production and a production that       *)
(* refers to the nonterminal itself.                                       *)
EpsilonRecursive ==
  {Productions[i].lhs : i \in {j \in 1..Len(Productions) : Productions[j].rhs = <<>>}}
    \cap {Productions[i].lhs :
            i \in {j \in 1..Len(Productions) :
                     Productions[j].lhs \in Range(Productions[j].rhs)}}

C8_Witness_LoopEnded ==
  /\ pc = "agenda"
  /\ agenda = <<>>
  /\ EpsilonRecursive =
       {"PhraseList_Prime", "NoteSequence_Prime", "ChordSequence_Prime", "PitchList_Prime"}
  /\ \E i \in 1..Len(chart.edges) :
       /\ chart.edges[i].lhs \in EpsilonRecursive
       /\ chart.edges[i].rhs # <<>>
       /\ is_complete(chart.edges[i])

(* C9 as claimed: when the expansion yields no sentence within the depth   *)
(* bound, generate_examples returns the manual examples.                   *)
C9_FallbackWhenNothingGenerated ==
  (Done("generate_examples")
     /\ generate_all(<<grammar.start>>, genArgs.depth, 1) = <<>>)
    => examples = manual_examples

(* C10: is_valid is true exactly of the token sequences of the language.   *)
C10_LanguageAccepted ==
  Done("is_valid") => (valid <=> InLanguage(tokens))

C10_Witness_Mixed ==
  /\ Done("is_valid")
  /\ text = valid_examples[4]
  /\ valid
  /\ InLanguage(tokens)

====
